---------------------------- MODULE Spec2Model ----------------------------
(***************************************************************************)
(* A model of package ygrpcgoutil: the reflection based field accessor     *)
(* (GetField, SetField, SetFields, GetStructAllFieldNamesAndJsonTag) and   *)
(* the time formatting helper SetField uses.                               *)
(*                                                                         *)
(* Representation.                                                         *)
(*  - A Go string is a sequence of one-character strings.                  *)
(*  - A fixed width integer is its bit pattern, little endian in 16 bit    *)
(*    digits: two digits for a 32 bit type, four for a 64 bit type.  A     *)
(*    mathematical integer is [neg, mag] with mag four such digits.        *)
(*  - A value held in an interface{} is [t |-> dynamic type, v |-> data];  *)
(*    the nil interface is NilValue.                                       *)
(*  - A struct type is a sequence of field descriptors, a struct value a   *)
(*    function from field names to values.                                 *)
(***************************************************************************)
EXTENDS Integers, Sequences, FiniteSets, TLC

VARIABLES
    objType,                \* the struct type of the object the caller holds
    rec,                    \* the value of each of its fields
    WarnInt2StrInSetField,  \* the package's warning toggle
    last,                   \* the last call: its arguments and what it gave
    prev                    \* history: the SetField call before the last one

vars == <<objType, rec, WarnInt2StrInSetField, last, prev>>

(***************************************************************************)
(* Fixed width arithmetic                                                  *)
(***************************************************************************)
Base == 2^16

Half == 2^15

Zero64 == <<0, 0, 0, 0>>

Zero32 == <<0, 0>>

IsZero(m) == \A i \in 1..Len(m) : m[i] = 0

\* m + 1 over the width of m (the carry out of the top digit is dropped).
RECURSIVE IncFrom(_, _)
IncFrom(m, i) ==
    IF i > Len(m) THEN m
    ELSE IF m[i] = Base - 1 THEN IncFrom([m EXCEPT ![i] = 0], i + 1)
    ELSE [m EXCEPT ![i] = m[i] + 1]

\* Two's complement negation over the width of m.
Negate(m) == IncFrom([i \in 1..Len(m) |-> Base - 1 - m[i]], 1)

TopBit(m) == m[Len(m)] >= Half

\* Zero extension of a magnitude to four digits.
Extend64(m) == [i \in 1..4 |-> IF i <= Len(m) THEN m[i] ELSE 0]

IsSigned(kind) == kind \in {"int32", "int64"}

\* The mathematical value of bit pattern m read as an integer of kind `kind`.
ToMath(kind, m) ==
    IF IsSigned(kind) /\ TopBit(m)
    THEN [neg |-> TRUE, mag |-> Extend64(Negate(m))]
    ELSE [neg |-> FALSE, mag |-> Extend64(m)]

\* -1, 0 or 1 as magnitude a is below, equal to or above magnitude b.
RECURSIVE MagCmpFrom(_, _, _)
MagCmpFrom(a, b, i) ==
    IF i = 0 THEN 0
    ELSE IF a[i] < b[i] THEN -1
    ELSE IF a[i] > b[i] THEN 1
    ELSE MagCmpFrom(a, b, i - 1)

MagCmp(a, b) == MagCmpFrom(a, b, 4)

\* Magnitude m divided by a small divisor d (d <= 2^15): quotient and remainder.
RECURSIVE MagDivFrom(_, _, _, _)
MagDivFrom(m, d, i, r) ==
    IF i = 0 THEN [q |-> <<>>, r |-> r]
    ELSE LET cur  == r * Base + m[i]
             rest == MagDivFrom(m, d, i - 1, cur % d)
         IN  [q |-> Append(rest.q, cur \div d), r |-> rest.r]

MagDivSmall(m, d) == MagDivFrom(m, d, Len(m), 0)

\* Magnitude m times a small factor k, plus carry-in c, over four digits.
RECURSIVE MagMulFrom(_, _, _, _)
MagMulFrom(m, k, i, c) ==
    IF i > Len(m) THEN <<>>
    ELSE LET cur == m[i] * k + c
         IN  <<cur % Base>> \o MagMulFrom(m, k, i + 1, cur \div Base)

MagMulSmall(m, k) == MagMulFrom(m, k, 1, 0)

MagMulAdd(m, k, c) == MagMulFrom(m, k, 1, c)

\* a - b for magnitudes with a >= b.
RECURSIVE MagSubFrom(_, _, _, _)
MagSubFrom(a, b, i, borrow) ==
    IF i > Len(a) THEN <<>>
    ELSE LET cur == a[i] - b[i] - borrow
         IN  IF cur < 0
             THEN <<cur + Base>> \o MagSubFrom(a, b, i + 1, 1)
             ELSE <<cur>> \o MagSubFrom(a, b, i + 1, 0)

MagSub(a, b) == MagSubFrom(a, b, 1, 0)

\* Division and multiplication by a constant given as its small factors:
\* for magnitudes, (m div a) div b = m div (a * b).
RECURSIVE MagDivBy(_, _)
MagDivBy(m, factors) ==
    IF factors = <<>> THEN m
    ELSE MagDivBy(MagDivSmall(m, Head(factors)).q, Tail(factors))

RECURSIVE MagMulBy(_, _)
MagMulBy(m, factors) ==
    IF factors = <<>> THEN m
    ELSE MagMulBy(MagMulSmall(m, Head(factors)), Tail(factors))

\* Go's int64 operators on mathematical values: x / c truncates toward zero,
\* x * c and x - y (used here with |y| <= |x| and equal signs) do not overflow.
QuoConst(x, factors) ==
    LET q == MagDivBy(x.mag, factors)
    IN  [neg |-> x.neg /\ ~IsZero(q), mag |-> q]

MulConst(x, factors) == [neg |-> x.neg, mag |-> MagMulBy(x.mag, factors)]

SubSameSign(x, y) ==
    LET d == MagSub(x.mag, y.mag)
    IN  [neg |-> x.neg /\ ~IsZero(d), mag |-> d]

(***************************************************************************)
(* Text                                                                    *)
(***************************************************************************)
DigitChars == <<"0", "1", "2", "3", "4", "5", "6", "7", "8", "9">>

HexChars == DigitChars \o <<"a", "b", "c", "d", "e", "f">>

\* The decimal digits of magnitude m, most significant first ("0" for zero).
RECURSIVE MagDigits(_)
MagDigits(m) ==
    LET d == MagDivSmall(m, 10)
    IN  IF IsZero(d.q) THEN <<DigitChars[d.r + 1]>>
        ELSE Append(MagDigits(d.q), DigitChars[d.r + 1])

RECURSIVE Zeros(_)
Zeros(n) == IF n <= 0 THEN <<>> ELSE <<"0">> \o Zeros(n - 1)

\* strconv.FormatInt(x, 10) and strconv.Itoa(x).
FormatInt(x) == (IF x.neg THEN <<"-">> ELSE <<>>) \o MagDigits(x.mag)

\* A %d in place of the %0<width>d: no padding.
FmtNoPad(x, width) == FormatInt(x)

\* fmt's %0<width>d: the sign, then zeros, then the digits; the width counts
\* the sign and is a minimum.
FmtZeroPad(x, width) ==
    LET digits == MagDigits(x.mag)
        sign   == IF x.neg THEN <<"-">> ELSE <<>>
    IN  sign \o Zeros(width - Len(sign) - Len(digits)) \o digits

\* strings.Contains(s, sub).
Contains(s, sub) ==
    \E i \in 0..(Len(s) - Len(sub)) : SubSeq(s, i + 1, i + Len(sub)) = sub

\* The decimal digits of a small natural number.
RECURSIVE NatDigits(_)
NatDigits(n) ==
    IF n < 10 THEN <<DigitChars[n + 1]>>
    ELSE Append(NatDigits(n \div 10), DigitChars[(n % 10) + 1])

\* time.Format's fixed width numeric fields ("2006", "01", "02", "15", ...).
Pad(n, width) == Zeros(width - Len(NatDigits(n))) \o NatDigits(n)

HexByte(b) == <<HexChars[(b \div 16) + 1], HexChars[(b % 16) + 1]>>

RECURSIVE HexOf(_)
HexOf(bytes) ==
    IF bytes = <<>> THEN <<>> ELSE HexByte(Head(bytes)) \o HexOf(Tail(bytes))

\* The ASCII characters of codes 32 to 95.
AsciiChars ==
    <<" ", "!", "\"", "#", "$", "%", "&", "'", "(", ")", "*", "+", ",", "-",
      ".", "/", "0", "1", "2", "3", "4", "5", "6", "7", "8", "9", ":", ";",
      "<", "=", ">", "?", "@", "A", "B", "C", "D", "E", "F", "G", "H", "I",
      "J", "K", "L", "M", "N", "O", "P", "Q", "R", "S", "T", "U", "V", "W",
      "X", "Y", "Z", "[", "\\", "]", "^", "_">>

\* Go's string(b) for a []uint8 of bytes 32 to 95: byte for byte.
BytesToString(bytes) == [i \in 1..Len(bytes) |-> AsciiChars[bytes[i] - 31]]

(***************************************************************************)
(* Types and values                                                        *)
(***************************************************************************)
\* reflect.Kind of a type, the type named by its reflect.Type.String().
KindOf(t) ==
    CASE t \in {"string", "ygrpcgoutil.MyString"}   -> "string"
      [] t \in {"int32", "ygrpcgoutil.MyInt32"}     -> "int32"
      [] t \in {"uint32", "ygrpcgoutil.MyUint32"}   -> "uint32"
      [] t \in {"int64", "ygrpcgoutil.MyInt64"}     -> "int64"
      [] t = "uint64"                               -> "uint64"
      [] t = "bool"                                 -> "bool"
      [] t = "time.Time"                            -> "struct"
      [] t = "[]uint8"                              -> "slice"
      [] t = "[16]uint8"                            -> "array"
      [] t = "map[string]interface {}"              -> "map"

\* The nil interface{}: reflect.ValueOf of it is the invalid Value.
NilValue == [t |-> "nil", v |-> <<>>]

IsValid(value) == value.t # "nil"

Val(t, v) == [t |-> t, v |-> v]

Str(chars) == Val("string", chars)

\* The zero value of a type, as a struct field holds it before any write.
ZeroOf(t) ==
    CASE KindOf(t) = "string"              -> Val(t, <<>>)
      [] KindOf(t) \in {"int32", "uint32"} -> Val(t, Zero32)
      [] KindOf(t) \in {"int64", "uint64"} -> Val(t, Zero64)
      [] KindOf(t) = "bool"                -> Val(t, FALSE)

\* A struct field as reflect.StructField describes it: Tag its tag as
\* <<key, value>> pairs.  For an embedded (anonymous) field, Sub holds the
\* fields of the embedded struct type and Emb what the field holds: the
\* struct ("struct"), a pointer to it ("ptr"), a nil pointer ("nilptr") or a
\* value of a type that is no struct ("other").
Field(name, type, pkgPath, tag) ==
    [Name |-> name, Type |-> type, PkgPath |-> pkgPath, Anonymous |-> FALSE,
     Tag |-> tag, Sub |-> <<>>, Emb |-> "none"]

Embedded(name, pkgPath, tag, emb, sub) ==
    [Name |-> name, Type |-> name, PkgPath |-> pkgPath, Anonymous |-> TRUE,
     Tag |-> tag, Sub |-> sub, Emb |-> emb]

IsExportableField(field) == field.PkgPath = ""

FieldNames(T) == {T[i].Name : i \in 1..Len(T)}

\* reflect.Value.FieldByName on a struct without embedded fields.
HasFieldByName(T, name) == name \in FieldNames(T)

FieldByName(T, name) == T[CHOOSE i \in 1..Len(T) : T[i].Name = name]

ZeroRecord(T) == [n \in FieldNames(T) |-> ZeroOf(FieldByName(T, n).Type)]

(***************************************************************************)
(* timeutil.go                                                             *)
(***************************************************************************)
\* t.Format("2006-01-02 15:04:05") of a time given by its wall clock fields.
TimeISOStr(t) ==
    Pad(t.year, 4) \o <<"-">> \o Pad(t.month, 2) \o <<"-">> \o Pad(t.day, 2)
    \o <<" ">> \o Pad(t.hour, 2) \o <<":">> \o Pad(t.min, 2) \o <<":">>
    \o Pad(t.sec, 2)

(***************************************************************************)
(* Library conversions SetField calls                                      *)
(***************************************************************************)
\* uuid.UUID.String(): xxxxxxxx-xxxx-xxxx-xxxx-xxxxxxxxxxxx of the 16 bytes.
UuidString(b) ==
    HexOf(SubSeq(b, 1, 4)) \o <<"-">> \o HexOf(SubSeq(b, 5, 6)) \o <<"-">>
    \o HexOf(SubSeq(b, 7, 8)) \o <<"-">> \o HexOf(SubSeq(b, 9, 10)) \o <<"-">>
    \o HexOf(SubSeq(b, 11, 16))

Quote(chars) == <<"\"">> \o chars \o <<"\"">>

\* json.Marshal of one map element: a string, an int32 or a channel (which
\* json does not support).
JsonElemOk(e) == e.t \in {"string", "int32"}

JsonElem(e) ==
    IF e.t = "string" THEN Quote(e.v) ELSE FormatInt(ToMath("int32", e.v))

RECURSIVE JsonEntries(_)
JsonEntries(m) ==
    IF m = <<>> THEN <<>>
    ELSE Quote(Head(m).k) \o <<":">> \o JsonElem(Head(m).e)
         \o (IF Len(m) > 1 THEN <<",">> ELSE <<>>) \o JsonEntries(Tail(m))

\* json.Marshal of a map[string]interface{}, the map given as its entries in
\* key order (the order Marshal writes them in).
JsonMarshal(m) ==
    IF \A i \in 1..Len(m) : JsonElemOk(m[i].e)
    THEN [err |-> "nil", b |-> <<"{">> \o JsonEntries(m) \o <<"}">>]
    ELSE [err |-> "JsonError", b |-> <<>>]

(***************************************************************************)
(* SetField and GetField                                                   *)
(***************************************************************************)
\* The constants of the source as their factors (3,600,000,000 is above
\* what TLC's integers hold): 1000000, 60 * 1000000, 60 * 60 * 1000000.
microsecondsPerSecond == <<1000, 1000>>

microsecondsPerMinute == <<60>> \o microsecondsPerSecond

microsecondsPerHour == <<60>> \o microsecondsPerMinute

\* A conversion that clamps a value that does not fit to all ones instead.
Saturate32(bits) ==
    IF \A i \in 3..Len(bits) : bits[i] = 0 THEN SubSeq(bits, 1, 2)
    ELSE <<Base - 1, Base - 1>>

\* Go's conversion of an integer to a 32 bit type: the low 32 bits.
Truncate32(bits) == SubSeq(bits, 1, 2)

\* usec -= quo * per.
Remaining(usec, quo, per) == SubSameSign(usec, MulConst(quo, per))

\* seconds := usec / microsecondsPerSecond, with the hours and minutes found.
ClockSeconds(hours, minutes, usec) ==
    [hours |-> hours, minutes |-> minutes,
     seconds |-> QuoConst(usec, microsecondsPerSecond)]

\* usec -= minutes * microsecondsPerMinute, and on to the seconds.
ClockAfterMinutes(hours, minutes, usec) ==
    ClockSeconds(hours, minutes, Remaining(usec, minutes, microsecondsPerMinute))

\* minutes := usec / microsecondsPerMinute, and on.
ClockMinutes(hours, usec) ==
    ClockAfterMinutes(hours, QuoConst(usec, microsecondsPerMinute), usec)

\* usec -= hours * microsecondsPerHour, and on to the minutes.
ClockAfterHours(hours, usec) ==
    ClockMinutes(hours, Remaining(usec, hours, microsecondsPerHour))

\* The hours, minutes and seconds SetField computes from an int64 count of
\* microseconds, each an int64: hours := usec / microsecondsPerHour, and on.
ClockParts(usec) == ClockAfterHours(QuoConst(usec, microsecondsPerHour), usec)

\* fmt.Sprintf("%02d:%02d:%02d", hours, minutes, seconds).
ClockFormat(p) ==
    FmtZeroPad(p.hours, 2) \o <<":">> \o FmtZeroPad(p.minutes, 2)
    \o <<":">> \o FmtZeroPad(p.seconds, 2)

ClockString(usec) == ClockFormat(ClockParts(usec))

IsTimeName(name) ==
    Contains(name, <<"T", "i", "m", "e">>) \/ Contains(name, <<"t", "i", "m", "e">>)

\* What the coercion switch decides: a converted value to set, an error to
\* return, a panic (a failed type assertion), or no rule (fall through).
Converted(val, out) == [tag |-> "set", val |-> val, err |-> "nil", out |-> out]

Failed(err) == [tag |-> "err", val |-> NilValue, err |-> err, out |-> <<>>]

AssertionPanic == [tag |-> "panic", val |-> NilValue, err |-> "Panic", out |-> <<>>]

NoRule == [tag |-> "none", val |-> NilValue, err |-> "TypeMismatch", out |-> <<>>]

\* value.(T): the type assertion holds only for the exact dynamic type T.
Asserted(value, t, result) == IF value.t = t THEN result ELSE AssertionPanic

WarnLine(name, value, warn) ==
    IF warn THEN <<<<"setfield to string warn:", name, value.t>>>> ELSE <<>>

\* A case "int32" in which the warning takes the place of the conversion.
Int32ToStringMuted(name, value, warn) ==
    IF warn THEN Converted(Str(<<>>), WarnLine(name, value, warn))
    ELSE Converted(Str(FormatInt(ToMath("int32", value.v))), <<>>)

\* case "int32": the warning, when the toggle is on, and strconv.Itoa.
Int32ToString(name, value, warn) ==
    Converted(Str(FormatInt(ToMath("int32", value.v))), WarnLine(name, value, warn))

\* case "map[string]interface {}": the error of json.Marshal, or its bytes
\* as a string.
JsonToString(j) ==
    IF j.err # "nil" THEN Failed(j.err) ELSE Converted(Str(j.b), <<>>)

\* case reflect.String: the switch on val.Type().String().
CoerceToString(name, value, warn) ==
    CASE value.t = "time.Time" ->
           Converted(Str(TimeISOStr(value.v)), <<>>)
      [] value.t = "[]uint8" ->
           Converted(Str(BytesToString(value.v)), <<>>)
      [] value.t = "[16]uint8" ->
           Converted(Str(UuidString(value.v)), <<>>)
      [] value.t = "map[string]interface {}" -> JsonToString(JsonMarshal(value.v))
      [] value.t = "int32" -> Int32ToString(name, value, warn)
      [] value.t = "int64" ->
           IF IsTimeName(name)
           THEN Converted(Str(ClockString(ToMath("int64", value.v))), <<>>)
           ELSE Converted(Str(FormatInt(ToMath("int64", value.v))), <<>>)
      [] OTHER -> NoRule

\* case reflect.Int32: the switch on val.Type().Kind().
CoerceToInt32(value) ==
    CASE KindOf(value.t) = "uint32" ->
           Asserted(value, "uint32", Converted(Val("int32", value.v), <<>>))
      [] KindOf(value.t) = "int64" ->
           Asserted(value, "int64", Converted(Val("int32", Truncate32(value.v)), <<>>))
      [] KindOf(value.t) = "uint64" ->
           Asserted(value, "uint64", Converted(Val("int32", Truncate32(value.v)), <<>>))
      [] OTHER -> NoRule

\* case reflect.Uint32: the switch on val.Type().Kind().
CoerceToUint32(value) ==
    CASE KindOf(value.t) = "int32" ->
           Asserted(value, "int32", Converted(Val("uint32", value.v), <<>>))
      [] KindOf(value.t) = "int64" ->
           Asserted(value, "int64", Converted(Val("uint32", Truncate32(value.v)), <<>>))
      [] KindOf(value.t) = "uint64" ->
           Asserted(value, "uint64", Converted(Val("uint32", Truncate32(value.v)), <<>>))
      [] OTHER -> NoRule

\* The switch on structFieldType.Kind(), entered when the types differ.
Coerce(fieldType, name, value, warn) ==
    CASE KindOf(fieldType) = "string" -> CoerceToString(name, value, warn)
      [] KindOf(fieldType) = "int32"  -> CoerceToInt32(value)
      [] KindOf(fieldType) = "uint32" -> CoerceToUint32(value)
      [] OTHER -> NoRule

Outcome(r, err, out) == [rec |-> r, err |-> err, out |-> out]

\* A SETVALUE that returns without the Set.
SetValueDropped(r, fieldType, name, val, out) ==
    IF val.t = fieldType THEN Outcome(r, "nil", out) ELSE Outcome(r, "Panic", out)

\* SETVALUE: structFieldValue.Set(val) panics unless val's type is the
\* field's type (no type of this model is assignable to another).
SetValue(r, fieldType, name, val, out) ==
    IF val.t = fieldType
    THEN Outcome([r EXCEPT ![name] = val], "nil", out)
    ELSE Outcome(r, "Panic", out)

\* reflect.ValueOf(obj).Elem().FieldByName(name) panics unless obj is a
\* non-nil pointer to a struct.
ElemIsStruct(obj) == obj = "ptr"

\* A SetField without the CanSet test.
CanSetAlways(field) == TRUE

\* structFieldValue.CanSet(): the field of a struct reached through a
\* pointer can be set when it is exported.
CanSet(field) == field.PkgPath = ""

\* What SetField does with what the coercion switch decided: SETVALUE, the
\* return of the error, the panic, or invalidTypeError printed and returned.
AfterSwitch(r, structFieldType, name, c) ==
    CASE c.tag = "set"   -> SetValue(r, structFieldType, name, c.val, c.out)
      [] c.tag = "err"   -> Outcome(r, c.err, <<>>)
      [] c.tag = "panic" -> Outcome(r, "Panic", <<>>)
      [] c.tag = "none"  -> Outcome(r, "TypeMismatch", <<<<name, "TypeMismatch">>>>)

\* SetField from structFieldType := structFieldValue.Type() on.
SetTyped(r, structFieldType, name, value, warn) ==
    IF structFieldType # value.t
    THEN AfterSwitch(r, structFieldType, name,
                     Coerce(structFieldType, name, value, warn))
    ELSE SetValue(r, structFieldType, name, value, <<>>)

\* SetField from the lookup of the field on, for a valid value.
SetResolved(obj, T, r, name, value, warn) ==
    IF ~ElemIsStruct(obj) THEN Outcome(r, "Panic", <<>>)
    ELSE IF ~HasFieldByName(T, name) THEN Outcome(r, "NoSuchField", <<>>)
    ELSE IF ~CanSet(FieldByName(T, name)) THEN Outcome(r, "CannotSet", <<>>)
    ELSE SetTyped(r, FieldByName(T, name).Type, name, value, warn)

\* A SetField that looks the field up before it tests the value.
SetFieldResolveFirst(obj, T, r, name, value, warn) ==
    IF ElemIsStruct(obj) /\ ~HasFieldByName(T, name) THEN Outcome(r, "NoSuchField", <<>>)
    ELSE IF ~IsValid(value) THEN Outcome(r, "nil", <<>>)
    ELSE SetResolved(obj, T, r, name, value, warn)

\* SetField(obj, name, value) on the struct of type T whose fields hold r:
\* the fields after the call, the error returned ("Panic" for a panic) and
\* the lines printed.
SetField(obj, T, r, name, value, warn) ==
    IF ~IsValid(value) THEN Outcome(r, "nil", <<>>)
    ELSE SetResolved(obj, T, r, name, value, warn)

\* hasValidType(obj, {Struct, Ptr}) for the ways obj is passed here.
hasValidType(obj) == obj \in {"ptr", "struct", "nilptr"}

\* GetField(obj, name): the value returned and the error ("Panic" when
\* FieldByName is called on the invalid Value a nil pointer's Elem() is, or
\* Interface() on an unexported field).
GetField(obj, T, r, name) ==
    IF ~hasValidType(obj) THEN [ret |-> NilValue, err |-> "NotStruct"]
    ELSE IF obj = "nilptr" THEN [ret |-> NilValue, err |-> "Panic"]
    ELSE IF ~HasFieldByName(T, name) THEN [ret |-> NilValue, err |-> "NoSuchField"]
    ELSE IF ~IsExportableField(FieldByName(T, name)) THEN [ret |-> NilValue, err |-> "Panic"]
    ELSE [ret |-> r[name], err |-> "nil"]

EfieldNameCountNotEqualToFieldValues == "EfieldNameCountNotEqualToFieldValues"

\* if errTmp != nil { err = errTmp }, with the lines printed so far.
KeepError(acc, o) ==
    Outcome(o.rec, IF o.err # "nil" THEN o.err ELSE acc.err, acc.out \o o.out)

\* One turn of the loop, after the turns that left acc.
SetFieldsStep(obj, T, acc, fieldName, fieldVal, warn) ==
    IF acc.err = "Panic" THEN acc
    ELSE KeepError(acc, SetField(obj, T, acc.rec, fieldName, fieldVal, warn))

\* The loop of SetFields: SetField on each pair in order, the last error
\* kept; a panic of a SetField call ends the loop.  after[i] is the outcome
\* once i pairs are done.
SetFieldsLoop(obj, T, r, fieldNames, fieldVals, warn) ==
    LET after[i \in 0..Len(fieldNames)] ==
            IF i = 0 THEN Outcome(r, "nil", <<>>)
            ELSE SetFieldsStep(obj, T, after[i - 1], fieldNames[i], fieldVals[i], warn)
    IN  after[Len(fieldNames)]

\* A SetFields that compares the lengths after the pairs it has values for.
SetFieldsCheckLate(obj, T, r, fieldNames, fieldVals, warn) ==
    IF Len(fieldNames) > Len(fieldVals)
    THEN Outcome(SetFieldsLoop(obj, T, r, SubSeq(fieldNames, 1, Len(fieldVals)),
                               fieldVals, warn).rec,
                 EfieldNameCountNotEqualToFieldValues, <<>>)
    ELSE SetFieldsLoop(obj, T, r, fieldNames, fieldVals, warn)

\* SetFields(obj, fieldNames, fieldVals).
SetFields(obj, T, r, fieldNames, fieldVals, warn) ==
    IF Len(fieldNames) > Len(fieldVals)
    THEN Outcome(r, EfieldNameCountNotEqualToFieldValues, <<>>)
    ELSE SetFieldsLoop(obj, T, r, fieldNames, fieldVals, warn)

(***************************************************************************)
(* GetStructAllFieldNamesAndJsonTag                                        *)
(***************************************************************************)
\* reflect.StructTag.Get(key).
TagGet(tag, key) ==
    IF \E i \in 1..Len(tag) : tag[i][1] = key
    THEN tag[CHOOSE i \in 1..Len(tag) : tag[i][1] = key][2]
    ELSE <<>>

\* before of strings.Cut(s, sep) for a one character sep.
CutBefore(s, sep) ==
    IF \E i \in 1..Len(s) : s[i] = sep
    THEN SubSeq(s, 1, (CHOOSE i \in 1..Len(s) :
                          s[i] = sep /\ \A j \in 1..(i - 1) : s[j] # sep) - 1)
    ELSE s

EmptyMap == [k \in {} |-> <<>>]

\* m[k] = v on a Go map.
MapPut(m, k, v) == [x \in DOMAIN m \cup {k} |-> IF x = k THEN v ELSE m[x]]

\* A copy that keeps the entry the map already has for a key.
MergeKeepFirst(acc, sub) ==
    [x \in DOMAIN acc \cup DOMAIN sub |-> IF x \in DOMAIN acc THEN acc[x] ELSE sub[x]]

\* The loops copying subFields into allfieldAndJsons.
MergeSub(acc, sub) ==
    [x \in DOMAIN acc \cup DOMAIN sub |-> IF x \in DOMAIN sub THEN sub[x] ELSE acc[x]]

\* GetStructAllFieldNamesAndJsonTag(obj, deep, fieldnamefirst) for obj of
\* struct type T passed as obj, and the loop over the fields from index i
\* with the map built so far.
RECURSIVE GetStructAllFieldNamesAndJsonTag(_, _, _, _)
RECURSIVE TagsLoop(_, _, _, _, _)
TagsLoop(T, deep, fieldnamefirst, i, acc) ==
    IF i > Len(T) THEN [m |-> acc, err |-> "nil"]
    ELSE LET field == T[i]
         IN  IF ~IsExportableField(field)
             THEN TagsLoop(T, deep, fieldnamefirst, i + 1, acc)
             ELSE IF deep /\ field.Anonymous
             THEN LET sub == GetStructAllFieldNamesAndJsonTag(
                                 field.Emb, field.Sub, deep, fieldnamefirst)
                  IN  IF sub.err = "Panic" THEN [m |-> EmptyMap, err |-> "Panic"]
                      ELSE IF sub.err # "nil"
                      THEN [m |-> EmptyMap, err |-> "CannotGetFields"]
                      ELSE TagsLoop(T, deep, fieldnamefirst, i + 1,
                                    MergeSub(acc, sub.m))
             ELSE LET before == CutBefore(TagGet(field.Tag, "json"), ",")
                  IN  TagsLoop(T, deep, fieldnamefirst, i + 1,
                               IF fieldnamefirst
                               THEN MapPut(acc, field.Name, before)
                               ELSE MapPut(acc, before, field.Name))

GetStructAllFieldNamesAndJsonTag(obj, T, deep, fieldnamefirst) ==
    IF obj \notin {"ptr", "struct", "nilptr"} THEN [m |-> EmptyMap, err |-> "NotStruct"]
    ELSE IF obj = "nilptr" THEN [m |-> EmptyMap, err |-> "Panic"]
    ELSE TagsLoop(T, deep, fieldnamefirst, 1, EmptyMap)

(***************************************************************************)
(* The caller: struct types, field names and argument values               *)
(***************************************************************************)
nName == <<"N", "a", "m", "e">>

nStartTime == <<"S", "t", "a", "r", "t", "T", "i", "m", "e">>

nUptime == <<"U", "p", "t", "i", "m", "e">>

nTotal == <<"T", "o", "t", "a", "l">>

nTIMES == <<"T", "I", "M", "E", "S">>

nCount == <<"C", "o", "u", "n", "t">>

nSize == <<"S", "i", "z", "e">>

nLabel == <<"L", "a", "b", "e", "l">>

nCode == <<"C", "o", "d", "e">>

nSecret == <<"s", "e", "c", "r", "e", "t">>

nMissing == <<"N", "o", "p", "e">>

Pkg == "ygrpcgoutil"

\* struct { Name string; Count int32; Size uint32; Label MyString;
\*          Code MyInt32; secret string }
GenStruct ==
    << Field(nName, "string", "", <<>>),
       Field(nCount, "int32", "", <<>>),
       Field(nSize, "uint32", "", <<>>),
       Field(nLabel, "ygrpcgoutil.MyString", "", <<>>),
       Field(nCode, "ygrpcgoutil.MyInt32", "", <<>>),
       Field(nSecret, "string", Pkg, <<>>) >>

GenNames == FieldNames(GenStruct) \cup {nMissing}

\* How the object is passed: a pointer to the struct, the struct by value, a
\* nil pointer to the struct type.
Objs == {"ptr", "struct", "nilptr"}

\* 2^32 + 7
Big7 == <<7, 0, 1, 0>>

GoodMap == <<[k |-> <<"a">>, e |-> Str(<<"x">>)]>>

BadMap == <<[k |-> <<"c">>, e |-> Val("chan int", <<>>)]>>

SomeTime == [year |-> 2024, month |-> 2, day |-> 9, hour |-> 7, min |-> 5, sec |-> 3]

SomeUuid ==
    <<0, 17, 34, 51, 68, 85, 102, 119, 136, 153, 170, 187, 204, 221, 238, 255>>

GenValues ==
    { NilValue,
      Str(<<"x">>),
      Val("int32", <<7, 0>>),
      Val("uint32", <<7, 0>>),
      Val("int64", Big7),
      Val("uint64", Big7),
      Val("bool", TRUE),
      Val("time.Time", SomeTime),
      Val("[]uint8", <<72, 73>>),
      Val("[16]uint8", SomeUuid),
      Val("map[string]interface {}", GoodMap),
      Val("map[string]interface {}", BadMap),
      Val("ygrpcgoutil.MyString", <<"m">>),
      Val("ygrpcgoutil.MyInt32", <<7, 0>>),
      Val("ygrpcgoutil.MyUint32", <<7, 0>>),
      Val("ygrpcgoutil.MyInt64", Big7) }

NoCall ==
    [op |-> "none", obj |-> "ptr", names |-> <<>>, values |-> <<>>, pre |-> <<>>,
     warn |-> TRUE, err |-> "nil", ret |-> NilValue, stored |-> NilValue,
     out |-> <<>>]

Crashed == last.err = "Panic"

(***************************************************************************)
(* Actions                                                                 *)
(***************************************************************************)
\* What prev keeps of a call: all but the fields before it.
Summary(call) == [call EXCEPT !.pre = <<>>]

\* SetField(obj, name, value) returns with outcome o.
SetFieldReturns(obj, name, value, o) ==
    /\ rec' = o.rec
    /\ last' = [op |-> "SetField", obj |-> obj, names |-> <<name>>,
                values |-> <<value>>, pre |-> rec,
                warn |-> WarnInt2StrInSetField, err |-> o.err,
                ret |-> NilValue,
                stored |-> IF name \in DOMAIN o.rec THEN o.rec[name] ELSE NilValue,
                out |-> o.out]

\* A call SetField(obj, name, value).
SetFieldCall(objs, names, values) ==
    /\ ~Crashed
    /\ \E obj \in objs, name \in names, value \in values :
         SetFieldReturns(obj, name, value,
                         SetField(obj, objType, rec, name, value, WarnInt2StrInSetField))
    /\ prev' = Summary(last)
    /\ UNCHANGED <<objType, WarnInt2StrInSetField>>

\* GetField(obj, name) returns g.
GetFieldReturns(obj, name, g) ==
    last' = [op |-> "GetField", obj |-> obj, names |-> <<name>>,
             values |-> <<>>, pre |-> rec,
             warn |-> WarnInt2StrInSetField, err |-> g.err,
             ret |-> g.ret, stored |-> NilValue, out |-> <<>>]

\* A call GetField(obj, name).
GetFieldCall(objs, names) ==
    /\ ~Crashed
    /\ \E obj \in objs, name \in names :
         GetFieldReturns(obj, name, GetField(obj, objType, rec, name))
    /\ prev' = Summary(last)
    /\ UNCHANGED <<objType, rec, WarnInt2StrInSetField>>

\* SetFields(obj, fieldNames, fieldVals) returns with outcome o.
SetFieldsReturns(obj, fieldNames, fieldVals, o) ==
    /\ rec' = o.rec
    /\ last' = [op |-> "SetFields", obj |-> obj, names |-> fieldNames,
                values |-> fieldVals, pre |-> rec,
                warn |-> WarnInt2StrInSetField, err |-> o.err,
                ret |-> NilValue, stored |-> NilValue, out |-> o.out]

\* A call SetFields(obj, fieldNames, fieldVals).
SetFieldsCall(objs, nameSeqs, valueSeqs) ==
    /\ ~Crashed
    /\ \E obj \in objs, fieldNames \in nameSeqs, fieldVals \in valueSeqs :
         SetFieldsReturns(obj, fieldNames, fieldVals,
                          SetFields(obj, objType, rec, fieldNames, fieldVals,
                                    WarnInt2StrInSetField))
    /\ prev' = Summary(last)
    /\ UNCHANGED <<objType, WarnInt2StrInSetField>>

\* GetStructAllFieldNamesAndJsonTag(obj, deep, fieldnamefirst) returns g.
TagsReturns(obj, deep, fieldnamefirst, g) ==
    last' = [op |-> "Tags", obj |-> obj, names |-> <<>>,
             values |-> <<Val("bool", deep), Val("bool", fieldnamefirst)>>,
             pre |-> rec, warn |-> WarnInt2StrInSetField, err |-> g.err,
             ret |-> Val("map[string]string", g.m), stored |-> NilValue,
             out |-> <<>>]

\* A call GetStructAllFieldNamesAndJsonTag(obj, deep, fieldnamefirst).
TagsCall(objs) ==
    /\ ~Crashed
    /\ \E obj \in objs, deep \in BOOLEAN, fieldnamefirst \in BOOLEAN :
         TagsReturns(obj, deep, fieldnamefirst,
                     GetStructAllFieldNamesAndJsonTag(obj, objType, deep, fieldnamefirst))
    /\ prev' = Summary(last)
    /\ UNCHANGED <<objType, rec, WarnInt2StrInSetField>>

\* The caller assigns the exported variable WarnInt2StrInSetField.
ToggleWarn ==
    /\ ~Crashed
    /\ WarnInt2StrInSetField' = ~WarnInt2StrInSetField
    /\ UNCHANGED <<objType, rec, last, prev>>

(***************************************************************************)
(* Spec: one SetField call, any arguments, on a struct the caller built,   *)
(* and a GetField call after it                                            *)
(***************************************************************************)
GenZero == [ZeroRecord(GenStruct) EXCEPT ![nSecret] = Str(<<"s">>)]

GenFilled ==
    [n \in FieldNames(GenStruct) |->
        CASE n = nName   -> Str(<<"o", "l", "d">>)
          [] n = nCount  -> Val("int32", <<3, 0>>)
          [] n = nSize   -> Val("uint32", <<4, 0>>)
          [] n = nLabel  -> Val("ygrpcgoutil.MyString", <<"l">>)
          [] n = nCode   -> Val("ygrpcgoutil.MyInt32", <<5, 0>>)
          [] n = nSecret -> Str(<<"s">>)]

Init ==
    /\ objType = GenStruct
    /\ rec \in {GenZero, GenFilled}
    /\ WarnInt2StrInSetField \in BOOLEAN
    /\ last = NoCall
    /\ prev = NoCall

FirstSetField ==
    /\ last.op = "none"
    /\ SetFieldCall(Objs, GenNames, GenValues)

ReadBack ==
    /\ last.op = "SetField"
    /\ GetFieldCall(Objs, GenNames)

Next == FirstSetField \/ ReadBack

Spec == Init /\ [][Next]_vars

(***************************************************************************)
(* SpecNum: one SetField call with an integer value on a struct of integer *)
(* and string fields                                                       *)
(***************************************************************************)
\* struct { Count int32; Size uint32; StartTime, Uptime, Total, TIMES string }
NumStruct ==
    << Field(nCount, "int32", "", <<>>),
       Field(nSize, "uint32", "", <<>>),
       Field(nStartTime, "string", "", <<>>),
       Field(nUptime, "string", "", <<>>),
       Field(nTotal, "string", "", <<>>),
       Field(nTIMES, "string", "", <<>>) >>

NumNames == FieldNames(NumStruct)

\* Bit patterns around the edges of each digit and of the sign bits.
Words32 == {<<a, b>> : a \in {0, 1, Base - 1}, b \in {0, Half - 1, Half, Base - 1}}

Words64 ==
    {<<a, b, c, d>> : a \in {0, 1, Base - 1}, b \in {0, Half - 1, Half, Base - 1},
                      c \in {0, 1, Base - 1}, d \in {0, Half, Base - 1}}

\* 12345, 3661000000 (01:01:01), 59999999, 60000000, 3599999999, 3600000000,
\* 86399999999 (23:59:59.999999), 359999999999, 360000000000 (100 hours),
\* -1, -1000000, -3661000000, the largest and the smallest int64.
Micros ==
    { <<12345, 0, 0, 0>>, <<27968, 55862, 0, 0>>, <<34559, 915, 0, 0>>,
      <<34560, 915, 0, 0>>, <<41983, 54931, 0, 0>>, <<41984, 54931, 0, 0>>,
      <<24575, 7639, 20, 0>>, <<4095, 53676, 83, 0>>, <<4096, 53676, 83, 0>>,
      <<65535, 65535, 65535, 65535>>, <<48576, 65520, 65535, 65535>>,
      <<37568, 9673, 65535, 65535>>, <<65535, 65535, 65535, 32767>>,
      <<0, 0, 0, 32768>> }

NumValues ==
    {Val("int32", w) : w \in Words32} \cup {Val("uint32", w) : w \in Words32}
    \cup {Val("int64", w) : w \in Words64 \cup Micros}
    \cup {Val("uint64", w) : w \in Words64}

NumFilled ==
    [n \in NumNames |->
        CASE n = nCount -> Val("int32", <<3, 0>>)
          [] n = nSize  -> Val("uint32", <<4, 0>>)
          [] OTHER      -> Str(<<"o", "l", "d">>)]

InitNum ==
    /\ objType = NumStruct
    /\ rec \in {ZeroRecord(NumStruct), NumFilled}
    /\ WarnInt2StrInSetField \in BOOLEAN
    /\ last = NoCall
    /\ prev = NoCall

NumSetField ==
    /\ last.op = "none"
    /\ SetFieldCall({"ptr"}, NumNames, NumValues)

NextNum == NumSetField

SpecNum == InitNum /\ [][NextNum]_vars

(***************************************************************************)
(* SpecBatch: one SetFields call                                            *)
(***************************************************************************)
MaxBatch == 2

\* struct { Name string; Count int32; Label MyString; secret string }
BatchStruct ==
    << Field(nName, "string", "", <<>>),
       Field(nCount, "int32", "", <<>>),
       Field(nLabel, "ygrpcgoutil.MyString", "", <<>>),
       Field(nSecret, "string", Pkg, <<>>) >>

BatchNames == {nName, nCount, nLabel, nMissing}

BatchValues == {NilValue, Str(<<"x">>), Val("int32", <<7, 0>>), Val("int64", Big7)}

SeqsUpTo(S, n) == UNION {[1..k -> S] : k \in 0..n}

BatchFilled ==
    [n \in FieldNames(BatchStruct) |->
        CASE n = nName   -> Str(<<"o", "l", "d">>)
          [] n = nCount  -> Val("int32", <<3, 0>>)
          [] n = nLabel  -> Val("ygrpcgoutil.MyString", <<"l">>)
          [] n = nSecret -> Str(<<"s">>)]

InitBatch ==
    /\ objType = BatchStruct
    /\ rec \in {ZeroRecord(BatchStruct), BatchFilled}
    /\ WarnInt2StrInSetField \in BOOLEAN
    /\ last = NoCall
    /\ prev = NoCall

BatchSetFields ==
    /\ last.op = "none"
    /\ SetFieldsCall({"ptr", "struct"}, SeqsUpTo(BatchNames, MaxBatch),
                     SeqsUpTo(BatchValues, MaxBatch))

NextBatch == BatchSetFields

SpecBatch == InitBatch /\ [][NextBatch]_vars

(***************************************************************************)
(* SpecSeq: any sequence of SetField calls and assignments of the toggle   *)
(***************************************************************************)
\* struct { Name, StartTime, Uptime string; Count int32 }
SeqStruct ==
    << Field(nName, "string", "", <<>>),
       Field(nStartTime, "string", "", <<>>),
       Field(nUptime, "string", "", <<>>),
       Field(nCount, "int32", "", <<>>) >>

SeqNames == FieldNames(SeqStruct)

SeqValues == {Val("int32", <<7, 0>>), Val("int64", <<27968, 55862, 0, 0>>)}

InitSeq ==
    /\ objType = SeqStruct
    /\ rec = ZeroRecord(SeqStruct)
    /\ WarnInt2StrInSetField = TRUE
    /\ last = NoCall
    /\ prev = NoCall

SeqSetField == SetFieldCall({"ptr"}, SeqNames, SeqValues)

NextSeq == SeqSetField \/ ToggleWarn

SpecSeq == InitSeq /\ [][NextSeq]_vars

(***************************************************************************)
(* SpecTags: one GetStructAllFieldNamesAndJsonTag call on a struct type    *)
(* put together from a pool of fields                                      *)
(***************************************************************************)
MaxFields == 3

Json(chars) == <<<<"json", chars>>>>

InnerFields ==
    << Field(<<"A">>, "string", "", Json(<<"i", "a">>)),
       Field(<<"C">>, "string", "", Json(<<"c">>)) >>

BaseFields ==
    << Field(<<"D">>, "string", "", Json(<<"d">>)),
       Field(<<"E">>, "string", "", Json(<<"a", ",", "x">>)) >>

WrapFields ==
    << Field(<<"G">>, "string", "", Json(<<"g">>)),
       Embedded(<<"L", "e", "a", "f">>, "", <<>>, "struct",
                <<Field(<<"L">>, "string", "", Json(<<"l">>)),
                  Field(<<"k">>, "string", Pkg, Json(<<"k">>))>>) >>

FieldPool ==
    { Field(<<"A">>, "string", "", Json(<<"a">>)),
      Field(<<"B">>, "int32", "", Json(<<"b", ",", "o", "m", "i", "t">>)),
      Field(<<"U">>, "string", "", <<>>),
      Field(<<"V">>, "string", "", <<<<"db", <<"v">>>>>>),
      Field(<<"h">>, "string", Pkg, Json(<<"h">>)),
      Embedded(<<"I", "n", "n", "e", "r">>, "", Json(<<"i", "n">>), "struct", InnerFields),
      Embedded(<<"B", "a", "s", "e">>, "", <<>>, "ptr", BaseFields),
      Embedded(<<"W", "r", "a", "p">>, "", <<>>, "struct", WrapFields),
      Embedded(<<"h", "i", "d">>, Pkg, <<>>, "struct",
               <<Field(<<"F">>, "string", "", Json(<<"f">>))>>),
      Embedded(<<"O", "p", "t">>, "", <<>>, "nilptr",
               <<Field(<<"O">>, "string", "", Json(<<"o">>))>>),
      Embedded(<<"M", "y", "I", "n", "t">>, "", <<>>, "other", <<>>) }

\* The struct types of one to MaxFields fields of the pool, no field twice.
TagStructs ==
    UNION { {T \in [1..k -> FieldPool] : \A i, j \in 1..k : T[i] = T[j] => i = j}
            : k \in 1..MaxFields }

InitTags ==
    /\ objType \in TagStructs
    /\ rec = <<>>
    /\ WarnInt2StrInSetField = TRUE
    /\ last = NoCall
    /\ prev = NoCall

TagsOnce ==
    /\ last.op = "none"
    /\ TagsCall({"ptr", "struct"})

NextTags == TagsOnce

SpecTags == InitTags /\ [][NextTags]_vars

(***************************************************************************)
(* Properties of SetField and GetField, checked under Spec                 *)
(***************************************************************************)
IsSetField == last.op = "SetField"

TheName == last.names[1]

TheValue == last.values[1]

\* The last call was SetField on a pointer to the struct with a field of
\* that name which can be set.
OnSettableField ==
    /\ IsSetField
    /\ last.obj = "ptr"
    /\ HasFieldByName(objType, TheName)
    /\ FieldByName(objType, TheName).PkgPath = ""

DeclaredType == FieldByName(objType, TheName).Type

OthersUnchanged == \A n \in DOMAIN rec : n # TheName => rec[n] = last.pre[n]

\* C1: SetField with the nil value returns no error and leaves every field
\* as it was, whatever the name (a missing field, an unexported field) and
\* however the object is passed.
C1_NilValueIsNoOp ==
    (IsSetField /\ TheValue = NilValue) => (last.err = "nil" /\ rec = last.pre)

C1_Witness ==
    /\ IsSetField
    /\ TheValue = NilValue
    /\ TheName = nMissing
    /\ last.obj = "ptr"
    /\ last.err = "nil"
    /\ rec = GenFilled

\* C2: SetField of a value whose type is exactly the declared type of a
\* settable field returns no error, GetField of that field then returns the
\* value, and no other field changes.
C2_ExactTypeRoundTrip ==
    /\ (OnSettableField /\ TheValue.t = DeclaredType) =>
          /\ last.err = "nil"
          /\ GetField("ptr", objType, rec, TheName) = [ret |-> TheValue, err |-> "nil"]
          /\ OthersUnchanged
    /\ ( /\ last.op = "GetField"
         /\ last.obj \in {"ptr", "struct"}
         /\ prev.op = "SetField"
         /\ prev.obj = "ptr"
         /\ prev.names = last.names
         /\ HasFieldByName(objType, TheName)
         /\ FieldByName(objType, TheName).PkgPath = ""
         /\ prev.values[1].t = DeclaredType ) =>
          (last.err = "nil" /\ last.ret = prev.values[1])

C2_Witness ==
    /\ last.op = "GetField"
    /\ last.obj = "ptr"
    /\ last.names = <<nLabel>>
    /\ prev.op = "SetField"
    /\ prev.obj = "ptr"
    /\ prev.names = <<nLabel>>
    /\ prev.values = <<Val("ygrpcgoutil.MyString", <<"m">>)>>
    /\ last.pre[nLabel] = Val("ygrpcgoutil.MyString", <<"m">>)
    /\ last.ret = Val("ygrpcgoutil.MyString", <<"m">>)
    /\ rec[nName] = Str(<<"o", "l", "d">>)

\* C7: every SetField call ends with one of the five outcomes returned as a
\* value, never with a panic.
C7_OutcomeIsAValue ==
    IsSetField =>
        last.err \in {"nil", "NoSuchField", "CannotSet", "TypeMismatch", "JsonError"}

\* The rows of the coercion table: the destination by the kind of its
\* declared type, a source of a string destination by its type, a source of
\* an integer destination by its kind.
TableRow(dst, src) ==
    \/ /\ KindOf(dst) = "string"
       /\ src \in {"time.Time", "[]uint8", "[16]uint8", "map[string]interface {}",
                   "int32", "int64"}
    \/ /\ KindOf(dst) = "int32"
       /\ src \notin {"chan int", "nil"}
       /\ KindOf(src) \in {"uint32", "int64", "uint64"}
    \/ /\ KindOf(dst) = "uint32"
       /\ src \notin {"chan int", "nil"}
       /\ KindOf(src) \in {"int32", "int64", "uint64"}

ErrorOrder ==
    /\ ~HasFieldByName(objType, TheName) =>
          (last.err = "NoSuchField" /\ rec = last.pre)
    /\ (HasFieldByName(objType, TheName) /\ FieldByName(objType, TheName).PkgPath # "") =>
          (last.err = "CannotSet" /\ rec = last.pre)
    /\ ( /\ HasFieldByName(objType, TheName)
         /\ FieldByName(objType, TheName).PkgPath = ""
         /\ IsValid(TheValue)
         /\ TheValue.t # DeclaredType
         /\ ~TableRow(DeclaredType, TheValue.t) ) =>
          (last.err = "TypeMismatch" /\ rec = last.pre)

\* C8 as stated: on a pointer to the struct, a missing name gives
\* NoSuchField, an unexported field CannotSet, and a value of a type that
\* differs from the field's, the pair outside the coercion table,
\* TypeMismatch, the struct unchanged each time.
C8_ErrorOrderAnyValue == (IsSetField /\ last.obj = "ptr") => ErrorOrder

\* C8 as amended: the same, for a value that is not nil.
C8_ErrorOrder == (IsSetField /\ last.obj = "ptr" /\ TheValue # NilValue) => ErrorOrder

C8_Witness ==
    /\ IsSetField
    /\ last.obj = "ptr"
    /\ TheName = nCode
    /\ TheValue = Val("int32", <<7, 0>>)
    /\ last.err = "TypeMismatch"
    /\ rec = GenFilled

(***************************************************************************)
(* Properties of the integer coercions, checked under SpecNum              *)
(***************************************************************************)
\* x mod 2^32 of a mathematical integer, as two digits.
Mod32(x) ==
    LET low == SubSeq(x.mag, 1, 2)
    IN  IF x.neg /\ ~IsZero(low) THEN Negate(low) ELSE low

TwoTo31 == <<0, Half, 0, 0>>

\* x lies in the range of the 32 bit type of that kind.
InRange32(kind, x) ==
    IF kind = "int32"
    THEN IF x.neg THEN MagCmp(x.mag, TwoTo31) <= 0 ELSE MagCmp(x.mag, TwoTo31) < 0
    ELSE ~x.neg /\ x.mag[3] = 0 /\ x.mag[4] = 0

IsIntCoercion ==
    /\ OnSettableField
    /\ DeclaredType \in {"int32", "uint32"}
    /\ TheValue.t \in {"int32", "uint32", "int64", "uint64"}
    /\ TheValue.t # DeclaredType

\* C3: each of the six integer coercions succeeds and stores the value of
\* the destination type that equals the source value modulo 2^32.
C3_TruncatesModulo2To32 ==
    IsIntCoercion =>
        /\ last.err = "nil"
        /\ rec[TheName].t = DeclaredType
        /\ Len(rec[TheName].v) = 2
        /\ InRange32(DeclaredType, ToMath(DeclaredType, rec[TheName].v))
        /\ Mod32(ToMath(DeclaredType, rec[TheName].v))
             = Mod32(ToMath(TheValue.t, TheValue.v))
        /\ OthersUnchanged

\* int64 4294967296 written to the int32 field stores 0.
C3_Witness ==
    /\ IsIntCoercion
    /\ TheName = nCount
    /\ TheValue = Val("int64", <<0, 0, 1, 0>>)
    /\ last.pre[nCount] = Val("int32", <<3, 0>>)
    /\ rec[nCount] = Val("int32", <<0, 0>>)

IsDigit(c) == \E i \in 1..10 : DigitChars[i] = c

DigitValue(c) == (CHOOSE i \in 1..10 : DigitChars[i] = c) - 1

\* The text is two digits, a colon, two digits, a colon, two digits.
IsClockText(txt) ==
    /\ Len(txt) = 8
    /\ txt[3] = ":" /\ txt[6] = ":"
    /\ \A i \in {1, 2, 4, 5, 7, 8} : IsDigit(txt[i])

TwoDigits(txt, i) == 10 * DigitValue(txt[i]) + DigitValue(txt[i + 1])

OneMillion == <<16960, 15, 0, 0>>

\* The clock text gives the whole seconds of x microseconds (x >= 0):
\* minutes and seconds below 60 and
\* (3600 h + 60 m + s) * 10^6 <= x < (3600 h + 60 m + s + 1) * 10^6.
ClockTextOf(txt, x) ==
    LET h == TwoDigits(txt, 1)
        m == TwoDigits(txt, 4)
        s == TwoDigits(txt, 7)
        whole == MagMulBy(<<3600 * h + 60 * m + s, 0, 0, 0>>, <<1000, 1000>>)
    IN  /\ m < 60 /\ s < 60
        /\ MagCmp(whole, x.mag) <= 0
        /\ MagCmp(MagSub(x.mag, whole), OneMillion) < 0

\* The value of a string of decimal digits.
RECURSIVE DecimalMag(_)
DecimalMag(digits) ==
    IF digits = <<>> THEN Zero64
    ELSE MagMulAdd(DecimalMag(SubSeq(digits, 1, Len(digits) - 1)), 10,
                   DigitValue(digits[Len(digits)]))

\* The text is the plain decimal rendering of x: a minus sign for a negative
\* number, then its digits without leading zeros.
IsDecimalOf(txt, x) ==
    LET digits == IF x.neg THEN Tail(txt) ELSE txt
    IN  /\ Len(txt) > 0
        /\ x.neg <=> (txt[1] = "-")
        /\ Len(digits) > 0
        /\ \A i \in 1..Len(digits) : IsDigit(digits[i])
        /\ (Len(digits) > 1 => digits[1] # "0")
        /\ DecimalMag(digits) = x.mag

IsInt64ToText ==
    /\ OnSettableField
    /\ DeclaredType = "string"
    /\ TheValue.t = "int64"

Micro == ToMath("int64", TheValue.v)

\* 100 hours of microseconds: 360,000,000,000.
HundredHours == MagMulBy(<<100, 0, 0, 0>>, microsecondsPerHour)

Int64ToTextRule(inClockRange) ==
    /\ last.err = "nil"
    /\ rec[TheName].t = "string"
    /\ IsTimeName(TheName) =>
          (inClockRange =>
              /\ IsClockText(rec[TheName].v)
              /\ ClockTextOf(rec[TheName].v, Micro))
    /\ ~IsTimeName(TheName) => IsDecimalOf(rec[TheName].v, Micro)

\* C4 as stated: every int64 written to a string field named with "Time" or
\* "time" is stored as HH:MM:SS, two digits each, of its whole seconds, and
\* under any other name as its decimal rendering.
C4_ClockTextForEveryInt64 == IsInt64ToText => Int64ToTextRule(TRUE)

\* C4 as amended: the same for 0 <= v < 360,000,000,000.
C4_ClockText ==
    IsInt64ToText =>
        Int64ToTextRule(~Micro.neg /\ MagCmp(Micro.mag, HundredHours) < 0)

\* 3661000000 written to StartTime stores "01:01:01".
C4_Witness ==
    /\ IsInt64ToText
    /\ TheName = nStartTime
    /\ TheValue.v = <<27968, 55862, 0, 0>>
    /\ rec[nStartTime] = Str(<<"0", "1", ":", "0", "1", ":", "0", "1">>)

(***************************************************************************)
(* Properties of SetFields, checked under SpecBatch                        *)
(***************************************************************************)
IsSetFields == last.op = "SetFields"

\* C5: SetFields with more names than values returns
\* EfieldNameCountNotEqualToFieldValues and changes no field.
C5_LengthMismatchChangesNothing ==
    (IsSetFields /\ Len(last.names) > Len(last.values)) =>
        /\ last.err = EfieldNameCountNotEqualToFieldValues
        /\ rec = last.pre

C5_Witness ==
    /\ IsSetFields
    /\ last.obj = "ptr"
    /\ last.names = <<nName, nCount>>
    /\ last.values = <<Str(<<"x">>)>>
    /\ last.err = EfieldNameCountNotEqualToFieldValues
    /\ rec = BatchFilled

\* What the claim expects of a batch: every pair is given to SetField, in
\* order, on the fields the pairs before it left; the error is that of the
\* last pair that got one.
RECURSIVE EveryPair(_, _, _, _, _, _)
EveryPair(T, r, fieldNames, fieldVals, warn, i) ==
    IF i > Len(fieldNames) THEN [rec |-> r, err |-> "nil"]
    ELSE LET o    == SetField("ptr", T, r, fieldNames[i], fieldVals[i], warn)
             rest == EveryPair(T, o.rec, fieldNames, fieldVals, warn, i + 1)
         IN  [rec |-> rest.rec,
              err |-> IF rest.err # "nil" THEN rest.err ELSE o.err]

IsBatch == IsSetFields /\ last.obj = "ptr" /\ Len(last.names) <= Len(last.values)

Expected ==
    EveryPair(objType, last.pre, last.names, last.values, last.warn, 1)

\* C6: when the lengths fit, SetFields gives every pair to SetField in order
\* and stops at none: it returns, with the fields as the pairs applied one
\* after another leave them and the error of the last failing pair.
C6_EveryPairAttempted ==
    IsBatch =>
        /\ last.err # "Panic"
        /\ rec = Expected.rec
        /\ last.err = Expected.err

\* C6 apart from the panics: the same, for the batches in which no SetField
\* call panics.
C6_EveryPairAttemptedUnlessPanic ==
    (IsBatch /\ last.err # "Panic") =>
        (rec = Expected.rec /\ last.err = Expected.err)

(***************************************************************************)
(* Properties of sequences of SetField calls, checked under SpecSeq        *)
(***************************************************************************)
\* The last two calls were SetField calls with the same value on fields of
\* the same declared type.
SameTypeSameValue ==
    /\ last.op = "SetField"
    /\ prev.op = "SetField"
    /\ FieldByName(objType, last.names[1]).Type = FieldByName(objType, prev.names[1]).Type
    /\ last.values = prev.values

SameResult == last.err = prev.err /\ last.stored = prev.stored

IsTags == last.op = "Tags"

Deep == last.values[1].v

FieldNameFirst == last.values[2].v

TheMap == last.ret.v

JsonName(field) == CutBefore(TagGet(field.Tag, "json"), ",")

\* The map holds the pair of this field name and tag, in the direction asked.
HasPair(m, name, tag) ==
    IF FieldNameFirst
    THEN name \in DOMAIN m /\ m[name] = tag
    ELSE tag \in DOMAIN m /\ m[tag] = name

Pair(field) == [name |-> field.Name, tag |-> JsonName(field)]

KeyOf(pair) == IF FieldNameFirst THEN pair.name ELSE pair.tag

ValueOf(pair) == IF FieldNameFirst THEN pair.tag ELSE pair.name

\* Every embedded field, at every depth, holds a struct or a pointer to one.
RECURSIVE EmbedsRecordsOnly(_)
EmbedsRecordsOnly(T) ==
    \A i \in 1..Len(T) :
        T[i].Anonymous => (T[i].Emb \in {"struct", "ptr"} /\ EmbedsRecordsOnly(T[i].Sub))

EmbedsARecord(T) == \E i \in 1..Len(T) : T[i].Anonymous

\* The pairs of the exported fields in declaration order; with deep, those of
\* an exported embedded record in place of its own pair.
RECURSIVE Pairs(_, _)
Pairs(T, deep) ==
    IF T = <<>> THEN <<>>
    ELSE LET f == Head(T)
             here == IF f.PkgPath # "" THEN <<>>
                     ELSE IF deep /\ f.Anonymous THEN Pairs(f.Sub, deep)
                     ELSE <<Pair(f)>>
         IN  here \o Pairs(Tail(T), deep)

\* The exported embedded fields at every depth.
RECURSIVE EmbeddedOf(_)
EmbeddedOf(T) ==
    IF T = <<>> THEN <<>>
    ELSE (IF Head(T).Anonymous /\ Head(T).PkgPath = ""
          THEN <<Head(T)>> \o EmbeddedOf(Head(T).Sub) ELSE <<>>)
         \o EmbeddedOf(Tail(T))

IsTagsOfRecord ==
    /\ IsTags
    /\ EmbedsARecord(objType)
    /\ EmbedsRecordsOnly(objType)

\* C10 as stated: with deep the map holds the pair of every exported field
\* that is not embedded, of the struct and of the (exported) records it
\* embeds, and no pair of an embedded field; without deep it holds the pair
\* of each exported field of the struct, an embedded one included, and none
\* of the fields inside.
C10_OnePairPerField ==
    IsTagsOfRecord =>
        /\ last.err = "nil"
        /\ LET all == Pairs(objType, Deep)
               emb == EmbeddedOf(objType)
           IN  /\ \A i \in 1..Len(all) : HasPair(TheMap, all[i].name, all[i].tag)
               /\ Deep => \A i \in 1..Len(emb) :
                             ~HasPair(TheMap, emb[i].Name, JsonName(emb[i]))
               /\ ~Deep => \A i \in 1..Len(emb) : \A j \in 1..Len(emb[i].Sub) :
                             emb[i].Sub[j].PkgPath = "" =>
                                ~HasPair(TheMap, emb[i].Sub[j].Name, JsonName(emb[i].Sub[j]))

\* C10 as amended: the map holds, for each key (the field name, or the tag
\* when fieldnamefirst is false), the pair of the last field with that key
\* among the exported fields in declaration order, the fields of an exported
\* embedded record taking the place of the record with deep, and nothing
\* else; so it holds one pair for each of these fields when their keys
\* differ.
C10_LastFieldOfAKeyWins ==
    IsTagsOfRecord =>
        /\ last.err = "nil"
        /\ LET seen == Pairs(objType, Deep)
           IN  /\ DOMAIN TheMap = {KeyOf(seen[i]) : i \in 1..Len(seen)}
               /\ \A i \in 1..Len(seen) :
                     (\A j \in (i + 1)..Len(seen) : KeyOf(seen[j]) # KeyOf(seen[i]))
                        => TheMap[KeyOf(seen[i])] = ValueOf(seen[i])
               /\ (\A i, j \in 1..Len(seen) : KeyOf(seen[i]) = KeyOf(seen[j]) => i = j)
                     => /\ Cardinality(DOMAIN TheMap) = Len(seen)
                        /\ \A i \in 1..Len(seen) :
                              HasPair(TheMap, seen[i].name, seen[i].tag)

\* Deep, names first, on struct { B; Inner; Base }: the pairs of B, of
\* Inner's A and C and of Base's D and E, and none for Inner and Base.
C10_Witness ==
    /\ IsTagsOfRecord
    /\ Deep /\ FieldNameFirst
    /\ Len(objType) = 3
    /\ objType[1].Name = <<"B">>
    /\ objType[2].Name = <<"I", "n", "n", "e", "r">>
    /\ objType[3].Name = <<"B", "a", "s", "e">>
    /\ TheMap = (<<"B">> :> <<"b">>) @@ (<<"A">> :> <<"i", "a">>) @@ (<<"C">> :> <<"c">>)
                @@ (<<"D">> :> <<"d">>) @@ (<<"E">> :> <<"a">>)

=============================================================================
